---- MODULE Spec2Model ----
(***************************************************************************)
(* merge_pdf: model of src/main.rs, the merge of an ordered list of PDF    *)
(* documents into one object graph with a synthesized bookmark outline.    *)
(*                                                                         *)
(* Object identifiers are modelled by their object number (the generation  *)
(* number plays no part in main.rs).  An object is a dictionary: a function*)
(* from field names to values.  The number 0 stands for None / the (0,0)   *)
(* sentinel wherever the code uses Option<u32> or ObjectId (0,0).          *)
(***************************************************************************)
EXTENDS Integers, Sequences, FiniteSets, TLC

\* Largest number of input files considered (args.files.len()).
MaxFiles == 3

(***************************************************************************)
(* Object algebra (lopdf::Object restricted to what main.rs touches)       *)
(***************************************************************************)
Ref(i) == [k |-> "ref", n |-> i, s |-> "", a |-> <<>>]
Name(str) == [k |-> "name", n |-> 0, s |-> str, a |-> <<>>]
IntObj(i) == [k |-> "int", n |-> i, s |-> "", a |-> <<>>]
\* An array of references.
Arr(ids) == [k |-> "arr", n |-> 0, s |-> "", a |-> ids]

\* An empty map (BTreeMap::new(), an empty dictionary).
EmptyMap == [x \in {} |-> 0]

\* Object::type_name().unwrap_or("")
TypeName(d) ==
    IF "Type" \in DOMAIN d /\ d["Type"].k = "name" THEN d["Type"].s ELSE ""

\* Dictionary::set(key, value)
DictSet(d, key, v) == (key :> v) @@ d

\* Dictionary::remove(key)
DictRemove(d, key) == [x \in (DOMAIN d) \ {key} |-> d[x]]

\* Dictionary::extend(other): entries of other overwrite those of d.
DictExtend(d, other) == other @@ d

\* The identifiers referenced from inside a dictionary.
RefsOfValue(v) ==
    IF v.k = "ref" THEN {v.n}
    ELSE IF v.k = "arr" THEN {v.a[i] : i \in 1..Len(v.a)}
    ELSE {}

RefsOf(d) == UNION {RefsOfValue(d[f]) : f \in DOMAIN d}

\* The keys of a map in ascending order (BTreeMap iteration order).
RECURSIVE SortedSeq(_)
SortedSeq(S) ==
    IF S = {} THEN <<>>
    ELSE LET m == CHOOSE x \in S : \A y \in S : x <= y
         IN <<m>> \o SortedSeq(S \ {m})

KeysInOrder(m) == SortedSeq(DOMAIN m)

(***************************************************************************)
(* Input documents.  A loaded document is [objects, max_id, root]; root is *)
(* the trailer's Root (0 when the trailer names none).                     *)
(***************************************************************************)
DocSimple ==
    [objects |-> (1 :> [Type |-> Name("Catalog"), Pages |-> Ref(2), Lang |-> Name("en")])
              @@ (2 :> [Type |-> Name("Pages"), Kids |-> Arr(<<3>>), Count |-> IntObj(1)])
              @@ (3 :> [Type |-> Name("Page"), Parent |-> Ref(2)]),
     max_id |-> 3, root |-> 1]

\* Two pages; the page tree lists the page with the larger identifier first.
DocReversed ==
    [objects |-> (1 :> [Type |-> Name("Catalog"), Pages |-> Ref(2), Lang |-> Name("fr")])
              @@ (2 :> [Type |-> Name("Pages"), Kids |-> Arr(<<4, 3>>), Count |-> IntObj(2)])
              @@ (3 :> [Type |-> Name("Page"), Parent |-> Ref(2)])
              @@ (4 :> [Type |-> Name("Page"), Parent |-> Ref(2)]),
     max_id |-> 4, root |-> 1]

\* A document with an empty page tree.
DocZeroPages ==
    [objects |-> (1 :> [Type |-> Name("Catalog"), Pages |-> Ref(2), Lang |-> Name("de")])
              @@ (2 :> [Type |-> Name("Pages"), Kids |-> Arr(<<>>), Count |-> IntObj(0)]),
     max_id |-> 2, root |-> 1]

\* A document with an outline: the Outlines root and two items carry a Type,
\* one item (object 4) does not (Type is optional on outline items).
DocOutlined ==
    [objects |-> (1 :> [Type |-> Name("Catalog"), Pages |-> Ref(2), Outlines |-> Ref(7),
                        Lang |-> Name("it")])
              @@ (2 :> [Type |-> Name("Pages"), Kids |-> Arr(<<3>>), Count |-> IntObj(1)])
              @@ (3 :> [Type |-> Name("Page"), Parent |-> Ref(2)])
              @@ (4 :> [Parent |-> Ref(7), Dest |-> Arr(<<3>>)])
              @@ (5 :> [Type |-> Name("Outline"), Parent |-> Ref(7)])
              @@ (6 :> [Type |-> Name("Outline"), Parent |-> Ref(7)])
              @@ (7 :> [Type |-> Name("Outlines"), First |-> Ref(4)]),
     max_id |-> 7, root |-> 1]

\* A document without a Catalog.
DocNoCatalog ==
    [objects |-> (1 :> [Type |-> Name("Pages"), Kids |-> Arr(<<2>>), Count |-> IntObj(1)])
              @@ (2 :> [Type |-> Name("Page"), Parent |-> Ref(1)]),
     max_id |-> 2, root |-> 0]

\* A document whose Catalog names no page tree.
DocNoPagesRoot ==
    [objects |-> (1 :> [Type |-> Name("Catalog"), Lang |-> Name("es")]),
     max_id |-> 1, root |-> 1]

\* What a file name resolves to: "missing" stands for a path that fails to load.
FileNames == {"missing", "simple", "reversed", "zero", "outlined", "nocatalog", "nopagesroot"}

\* Document::load(path)
Load(f) ==
    CASE f = "simple" -> DocSimple
      [] f = "reversed" -> DocReversed
      [] f = "zero" -> DocZeroPages
      [] f = "outlined" -> DocOutlined
      [] f = "nocatalog" -> DocNoCatalog
      [] f = "nopagesroot" -> DocNoPagesRoot

LoadFails(f) == f = "missing"

(***************************************************************************)
(* Operations of the PDF object-model library that main.rs calls           *)
(***************************************************************************)
\* The pages below a page-tree node, in page-tree order.
RECURSIVE PagesBelow(_, _)
RECURSIVE PagesOfKids(_, _)
PagesBelow(objects, id) ==
    IF id \notin DOMAIN objects THEN <<>>
    ELSE LET d == objects[id]
         IN IF TypeName(d) = "Page" THEN <<id>>
            ELSE IF TypeName(d) = "Pages" /\ "Kids" \in DOMAIN d /\ d["Kids"].k = "arr"
                 THEN PagesOfKids(objects, d["Kids"].a)
                 ELSE <<>>

PagesOfKids(objects, kids) ==
    IF kids = <<>> THEN <<>>
    ELSE PagesBelow(objects, Head(kids)) \o PagesOfKids(objects, Tail(kids))

\* Document::get_pages(): the page identifiers in the document's page-tree order
\* (trailer Root -> Catalog -> Pages -> Kids).
GetPages(doc) ==
    IF doc.root \in DOMAIN doc.objects
       /\ "Pages" \in DOMAIN doc.objects[doc.root]
       /\ doc.objects[doc.root]["Pages"].k = "ref"
    THEN PagesBelow(doc.objects, doc.objects[doc.root]["Pages"].n)
    ELSE <<>>

\* The order in which a renumbering hands out the new identifiers.  The library's
\* code is not part of main.rs and its contract fixes no order, so both orders
\* are covered: the objects in ascending key order, or the pages first, in
\* page-tree order, followed by the other objects in ascending key order.
RenumberOrder(doc, pf) ==
    IF pf
    THEN LET pages == GetPages(doc)
         IN pages \o SortedSeq((DOMAIN doc.objects) \ {pages[i] : i \in 1..Len(pages)})
    ELSE KeysInOrder(doc.objects)

\* The identifier an object gets from a renumbering that starts at `start`; an
\* identifier that is no key of the graph is passed through unchanged.
RenumberId(order, start, id) ==
    IF \E p \in 1..Len(order) : order[p] = id
    THEN start + (CHOOSE p \in 1..Len(order) : order[p] = id) - 1
    ELSE id

RenumberValue(order, start, v) ==
    IF v.k = "ref" THEN Ref(RenumberId(order, start, v.n))
    ELSE IF v.k = "arr"
         THEN Arr([i \in 1..Len(v.a) |-> RenumberId(order, start, v.a[i])])
         ELSE v

\* Document::renumber_objects_with(start), on the object map.
Renumber(objects, order, start) ==
    [new \in start..(start + Len(order) - 1) |->
        LET d == objects[order[new - start + 1]]
        IN [f \in DOMAIN d |-> RenumberValue(order, start, d[f])]]

\* doc.renumber_objects_with(start): also sets doc.max_id to the last identifier used.
RenumberDoc(doc, start, pf) ==
    LET order == RenumberOrder(doc, pf)
    IN [objects |-> Renumber(doc.objects, order, start),
        max_id |-> start + Len(order) - 1,
        root |-> RenumberId(order, start, doc.root)]

\* Bookmark::new(title, color, format, page)
NewBookmark(title, color, format, page) ==
    [title |-> title, color |-> color, format |-> format, page |-> page,
     parent |-> 0, children |-> <<>>]

\* Document::add_bookmark(bookmark, parent): the new bookmark's id is returned
\* (here: its index in the table); parent 0 is None, a top-level bookmark.
AddBookmark(r, bookmark, parent) ==
    LET id == Len(r.bookmark_table) + 1
        linked == IF parent \in 1..Len(r.bookmark_table)
                  THEN [r.bookmark_table EXCEPT ![parent].children = Append(@, id)]
                  ELSE r.bookmark_table
    IN [r EXCEPT !.bookmark_table = Append(linked, [bookmark EXCEPT !.parent = parent]),
                 !.bookmarks = IF parent = 0 THEN Append(@, id) ELSE @]

\* The first concrete target among the given bookmarks and their descendants,
\* in document order; 0 when there is none.
RECURSIVE FirstConcrete(_, _)
FirstConcrete(table, ids) ==
    IF ids = <<>> THEN 0
    ELSE LET b == table[Head(ids)]
         IN IF b.page # 0 THEN b.page
            ELSE LET below == FirstConcrete(table, b.children)
                 IN IF below # 0 THEN below ELSE FirstConcrete(table, Tail(ids))

\* Document::adjust_zero_pages(): a bookmark whose target is the sentinel gets the
\* target of its nearest descendant that has a concrete one.
AdjustZeroPages(table) ==
    [i \in 1..Len(table) |->
        IF table[i].page = 0
        THEN [table[i] EXCEPT !.page = FirstConcrete(table, table[i].children)]
        ELSE table[i]]

\* Document::build_outline(): one Outlines dictionary and one outline item per
\* bookmark are added under fresh identifiers; the Outlines identifier is
\* returned (0 = None when there is no bookmark).
OutlineRoot(r) == IF r.bookmarks = <<>> THEN 0 ELSE r.max_id + 1

OutlineItem(r, b) ==
    LET bm == r.bookmark_table[b]
    IN [Title |-> [k |-> "str", n |-> bm.title.n, s |-> bm.title.text, a |-> <<>>],
        Parent |-> Ref(IF bm.parent = 0 THEN OutlineRoot(r) ELSE OutlineRoot(r) + bm.parent),
        Dest |-> Arr(<<bm.page>>)]

BuildOutline(r) ==
    IF r.bookmarks = <<>> THEN r
    ELSE LET root == OutlineRoot(r)
             n == Len(r.bookmark_table)
             items == [id \in (root + 1)..(root + n) |-> OutlineItem(r, id - root)]
             top == [Type |-> Name("Outlines"),
                     First |-> Ref(root + r.bookmarks[1]),
                     Last |-> Ref(root + r.bookmarks[Len(r.bookmarks)]),
                     Count |-> IntObj(n)]
         IN [r EXCEPT !.objects = (root :> top) @@ items @@ r.objects,
                      !.max_id = root + n]

(***************************************************************************)
(* State of main()                                                         *)
(***************************************************************************)
VARIABLES
    files,              \* args.files as what each path resolves to
    pages_first,        \* whether the library's renumbering hands out the pages' ids first
    pc,                 \* position in main()
    docs,               \* the loaded documents, in input order (renumbered in place by the loop)
    idx,                \* number of documents the loop has processed
    layer_parent,       \* last bookmark per layer depth (0 = None), indexed from 0
    last_layer,
    max_id,
    pagenum,
    documents_pages,    \* BTreeMap<ObjectId, Object>
    documents_objects,  \* BTreeMap<ObjectId, Object>
    res,                \* the output document
    todo,               \* keys of documents_objects the classification loop has not visited
    catalog_object,     \* Option<(ObjectId, Object)>
    pages_object,       \* Option<(ObjectId, Object)>
    arms,               \* the match arm taken for each processed document
    saved,              \* number of times res.save was invoked
    result              \* "running", "ok" or the error returned

vars == <<files, pages_first, pc, docs, idx, layer_parent, last_layer, max_id, pagenum,
          documents_pages, documents_objects, res, todo, catalog_object,
          pages_object, arms, saved, result>>

None == [some |-> FALSE, id |-> 0, obj |-> EmptyMap]
Some(id, obj) == [some |-> TRUE, id |-> id, obj |-> obj]

\* Document::new()
NewDocument ==
    [objects |-> EmptyMap, bookmark_table |-> <<>>, bookmarks |-> <<>>,
     max_id |-> 0, root |-> 0]

Title(text, n) == [text |-> text, n |-> n]

Init ==
    /\ files \in UNION {[1..n -> FileNames] : n \in 0..MaxFiles}
    /\ pages_first \in BOOLEAN
    /\ pc = "args"
    /\ docs = <<>>
    /\ idx = 0
    /\ layer_parent = EmptyMap
    /\ last_layer = 0
    /\ max_id = 1
    /\ pagenum = 1
    /\ documents_pages = EmptyMap
    /\ documents_objects = EmptyMap
    /\ res = NewDocument
    /\ todo = {}
    /\ catalog_object = None
    /\ pages_object = None
    /\ arms = <<>>
    /\ saved = 0
    /\ result = "running"

\* return Err(..): main() ends without reaching res.save.
Fail(msg) ==
    /\ pc' = "done"
    /\ result' = msg

TooFewFiles(n) == n < 2

\* if args.files.len() < 2 { return Err }
CheckArgs ==
    /\ pc = "args"
    /\ IF TooFewFiles(Len(files))
       THEN Fail("not enough files")
       ELSE pc' = "load" /\ UNCHANGED result
    /\ UNCHANGED <<files, pages_first, docs, idx, layer_parent, last_layer, max_id, pagenum,
                   documents_pages, documents_objects, res, todo, catalog_object,
                   pages_object, arms, saved>>

\* Load every file, pair it with its position; then vec![None; docs.len()].
LoadDocs ==
    /\ pc = "load"
    /\ IF \E i \in 1..Len(files) : LoadFails(files[i])
       THEN /\ Fail("is not found")
            /\ UNCHANGED <<docs, layer_parent>>
       ELSE /\ docs' = [i \in 1..Len(files) |-> Load(files[i])]
            /\ layer_parent' = [i \in 0..(Len(files) - 1) |-> 0]
            /\ pc' = "toc"
            /\ UNCHANGED result
    /\ UNCHANGED <<files, pages_first, idx, last_layer, max_id, pagenum, documents_pages,
                   documents_objects, res, todo, catalog_object, pages_object,
                   arms, saved>>

\* Add the "Table of Contents" bookmark with target (0,0) and no parent.
AddToc ==
    /\ pc = "toc"
    /\ LET r == AddBookmark(res, NewBookmark(Title("Table of Contents", 0), <<0, 0, 0>>, 0, 0), 0)
       IN IF 0 \in DOMAIN layer_parent
          THEN /\ res' = r
               /\ layer_parent' = [layer_parent EXCEPT ![0] = Len(r.bookmark_table)]
               /\ pc' = "docs"
               /\ UNCHANGED result
          ELSE /\ Fail("layer_parent is empty")
               /\ UNCHANGED <<res, layer_parent>>
    /\ UNCHANGED <<files, pages_first, docs, idx, last_layer, max_id, pagenum, documents_pages,
                   documents_objects, todo, catalog_object, pages_object, arms, saved>>

\* Mutant: the next document starts at the previous document's last identifier.
NextOffset_NoGap(doc_max_id) == doc_max_id

\* max_id = doc.max_id + 1
NextOffset(doc_max_id) == doc_max_id + 1

\* Mutant: the guard of the third arm without its `l - 1 == last_layer` half.
MatchArm_NoAdjacent(l, last) ==
    IF l = 0 THEN "0"
    ELSE IF l = 1 THEN "1"
    ELSE IF l <= last THEN "l if l <= last_layer || l - 1 == last_layer"
    ELSE IF last > 0 THEN "_ if last_layer > 0"
    ELSE "_"

\* The arm of `match layer` that is taken.
MatchArm(l, last) ==
    IF l = 0 THEN "0"
    ELSE IF l = 1 THEN "1"
    ELSE IF l <= last \/ l - 1 = last THEN "l if l <= last_layer || l - 1 == last_layer"
    ELSE IF last > 0 THEN "_ if last_layer > 0"
    ELSE "_"

\* Mutant: the third arm forgets `last_layer = l`.
ArmEffect_KeepLast(arm, l, last) ==
    CASE arm = "0" -> [parent_slot |-> -1, store_slot |-> 0, last_layer |-> 0]
      [] arm = "1" -> [parent_slot |-> 0, store_slot |-> 1, last_layer |-> 1]
      [] arm = "l if l <= last_layer || l - 1 == last_layer" ->
             [parent_slot |-> l - 1, store_slot |-> l - 1, last_layer |-> last]
      [] arm = "_ if last_layer > 0" ->
             [parent_slot |-> last - 1, store_slot |-> last, last_layer |-> last]
      [] OTHER -> [parent_slot |-> 0, store_slot |-> 1, last_layer |-> 1]

\* What each arm does: the slot the parent is read from (-1: parent is None and no
\* slot is read), the slot the new bookmark is stored into, the new last_layer.
ArmEffect(arm, l, last) ==
    CASE arm = "0" -> [parent_slot |-> -1, store_slot |-> 0, last_layer |-> 0]
      [] arm = "1" -> [parent_slot |-> 0, store_slot |-> 1, last_layer |-> 1]
      [] arm = "l if l <= last_layer || l - 1 == last_layer" ->
             [parent_slot |-> l - 1, store_slot |-> l - 1, last_layer |-> l]
      [] arm = "_ if last_layer > 0" ->
             [parent_slot |-> last - 1, store_slot |-> last, last_layer |-> last]
      [] OTHER -> [parent_slot |-> 0, store_slot |-> 1, last_layer |-> 1]

\* One iteration of `for (layer, mut doc) in docs`.
ProcessDoc ==
    /\ pc = "docs"
    /\ idx < Len(docs)
    /\ LET layer == idx + 1
           doc == RenumberDoc(docs[layer], max_id, pages_first)
           pages == GetPages(doc)
           first_object == IF pages = <<>> THEN 0 ELSE pages[1]
           display == IF pages = <<>> THEN Title("", 0) ELSE Title("Page", pagenum)
           page_ids == {pages[i] : i \in 1..Len(pages)}
           arm == MatchArm(layer, last_layer)
           eff == ArmEffect(arm, layer, last_layer)
           parent == IF eff.parent_slot = -1 THEN 0 ELSE layer_parent[eff.parent_slot]
           r == AddBookmark(res, NewBookmark(display, <<0, 0, 0>>, 0, first_object), parent)
       IN /\ docs' = [docs EXCEPT ![layer] = doc]
          /\ max_id' = NextOffset(doc.max_id)
          /\ pagenum' = IF pages = <<>> THEN pagenum ELSE pagenum + 1
          /\ IF ~(page_ids \subseteq DOMAIN doc.objects)
             THEN \* doc.get_object(object_id) fails: `value?` returns the error
                  /\ Fail("object not found")
                  /\ UNCHANGED <<documents_pages, documents_objects, res, layer_parent,
                                 last_layer, arms, idx, todo>>
             ELSE /\ documents_pages' =
                        [id \in page_ids |-> doc.objects[id]] @@ documents_pages
                  /\ documents_objects' = doc.objects @@ documents_objects
                  /\ IF (eff.parent_slot # -1 /\ eff.parent_slot \notin DOMAIN layer_parent)
                        \/ eff.store_slot \notin DOMAIN layer_parent
                     THEN /\ Fail("layer_parent is out of index")
                          /\ UNCHANGED <<res, layer_parent, last_layer, arms, idx, todo>>
                     ELSE /\ res' = r
                          /\ layer_parent' =
                                [layer_parent EXCEPT ![eff.store_slot] = Len(r.bookmark_table)]
                          /\ last_layer' = eff.last_layer
                          /\ arms' = Append(arms, arm)
                          /\ idx' = layer
                          /\ todo' = IF layer = Len(docs) THEN DOMAIN documents_objects' ELSE {}
                          /\ pc' = IF layer < Len(docs) THEN "docs"
                                   ELSE IF DOMAIN documents_objects' = {} THEN "checkpages"
                                   ELSE "classify"
                          /\ UNCHANGED result
    /\ UNCHANGED <<files, pages_first, catalog_object, pages_object, saved>>

\* The "Catalog" arm: the identifier of the first Catalog seen is kept, paired
\* with the object at hand.
ClassifyCatalog(cur, object_id, object) ==
    Some(IF cur.some THEN cur.id ELSE object_id, object)

\* The "Pages" arm: the dictionary at hand extended by the one collected so far,
\* under the identifier of the first Pages seen.
ClassifyPages(cur, object_id, object) ==
    Some(IF cur.some THEN cur.id ELSE object_id,
         IF cur.some THEN DictExtend(object, cur.obj) ELSE object)

\* One iteration of `for (object_id, object) in documents_objects.into_iter()`.
Classify ==
    /\ pc = "classify"
    /\ todo # {}
    /\ LET object_id == CHOOSE x \in todo : \A y \in todo : x <= y
           object == documents_objects[object_id]
           type == TypeName(object)
       IN /\ catalog_object' = IF type = "Catalog"
                               THEN ClassifyCatalog(catalog_object, object_id, object)
                               ELSE catalog_object
          /\ pages_object' = IF type = "Pages"
                             THEN ClassifyPages(pages_object, object_id, object)
                             ELSE pages_object
          /\ res' = IF type \in {"Catalog", "Pages", "Page", "Outlines", "Outline"}
                    THEN res
                    ELSE [res EXCEPT !.objects = (object_id :> object) @@ @]
          /\ todo' = todo \ {object_id}
          /\ pc' = IF todo' = {} THEN "checkpages" ELSE "classify"
    /\ UNCHANGED <<files, pages_first, docs, idx, layer_parent, last_layer, max_id, pagenum,
                   documents_pages, documents_objects, arms, saved, result>>

\* Mutant: the missing-Pages check never fires.
PagesMissing_Never(p) == FALSE

PagesMissing(p) == ~p.some

\* if pages_object.is_none() { return Err("Pages root not found.") }
CheckPages ==
    /\ pc = "checkpages"
    /\ IF PagesMissing(pages_object)
       THEN Fail("Pages root not found.")
       ELSE pc' = "insertpages" /\ UNCHANGED result
    /\ UNCHANGED <<files, pages_first, docs, idx, layer_parent, last_layer, max_id, pagenum,
                   documents_pages, documents_objects, res, todo, catalog_object,
                   pages_object, arms, saved>>

\* Every collected page goes into the output with Parent set to the Pages id.
InsertPages ==
    /\ pc = "insertpages"
    /\ res' = [res EXCEPT !.objects =
                  [id \in DOMAIN documents_pages |->
                      DictSet(documents_pages[id], "Parent", Ref(pages_object.id))] @@ @]
    /\ pc' = "checkcatalog"
    /\ UNCHANGED <<files, pages_first, docs, idx, layer_parent, last_layer, max_id, pagenum,
                   documents_pages, documents_objects, todo, catalog_object,
                   pages_object, arms, saved, result>>

CatalogMissing(c) == ~c.some

\* if catalog_object.is_none() { return Err("Catalog root not found.") }
CheckCatalog ==
    /\ pc = "checkcatalog"
    /\ IF CatalogMissing(catalog_object)
       THEN Fail("Catalog root not found.")
       ELSE pc' = "buildpages" /\ UNCHANGED result
    /\ UNCHANGED <<files, pages_first, docs, idx, layer_parent, last_layer, max_id, pagenum,
                   documents_pages, documents_objects, res, todo, catalog_object,
                   pages_object, arms, saved>>

\* Mutant: the pages are listed in descending key order.
RECURSIVE ReverseSeq(_)
ReverseSeq(q) == IF q = <<>> THEN <<>> ELSE Append(ReverseSeq(Tail(q)), Head(q))

KidsOf_Descending(pages) == ReverseSeq(KeysInOrder(pages))

\* documents_pages.into_iter().map(|(object_id, _)| Reference(object_id)).collect()
KidsOf(pages) == KeysInOrder(pages)

\* Mutant: the count of all collected objects instead of the collected pages.
CountOf_AllObjects(pages) == Cardinality(DOMAIN documents_objects)

\* documents_pages.len()
CountOf(pages) == Cardinality(DOMAIN pages)

\* Build the new "Pages" with Count and Kids and insert it under page_id.
BuildPages ==
    /\ pc = "buildpages"
    /\ LET dictionary == DictSet(DictSet(pages_object.obj, "Count",
                                         IntObj(CountOf(documents_pages))),
                                 "Kids", Arr(KidsOf(documents_pages)))
       IN res' = [res EXCEPT !.objects = (pages_object.id :> dictionary) @@ @]
    /\ pc' = "buildcatalog"
    /\ UNCHANGED <<files, pages_first, docs, idx, layer_parent, last_layer, max_id, pagenum,
                   documents_pages, documents_objects, todo, catalog_object,
                   pages_object, arms, saved, result>>

\* The new "Catalog": Pages and PageMode set, Outlines removed.
NewCatalog(catalog, page_id) ==
    DictRemove(DictSet(DictSet(catalog, "Pages", Ref(page_id)),
                       "PageMode", Name("UseOutlines")),
               "Outlines")

BuildCatalog ==
    /\ pc = "buildcatalog"
    /\ res' = [res EXCEPT !.objects =
                  (catalog_object.id :> NewCatalog(catalog_object.obj, pages_object.id)) @@ @]
    /\ pc' = "finalize"
    /\ UNCHANGED <<files, pages_first, docs, idx, layer_parent, last_layer, max_id, pagenum,
                   documents_pages, documents_objects, todo, catalog_object,
                   pages_object, arms, saved, result>>

\* trailer.set("Root", catalog_id); max_id = objects.len(); renumber_objects().
\* The renumbering renames the trailer's Root and the bookmarks' targets with
\* the objects.
Finalize ==
    /\ pc = "finalize"
    /\ LET objs == res.objects
           order == RenumberOrder([objects |-> objs, root |-> catalog_object.id], pages_first)
       IN res' = [res EXCEPT
                    !.objects = Renumber(objs, order, 1),
                    !.root = RenumberId(order, 1, catalog_object.id),
                    !.max_id = Len(order),
                    !.bookmark_table =
                        [i \in 1..Len(@) |-> [@[i] EXCEPT !.page = RenumberId(order, 1, @)]]]
    /\ pc' = "adjust"
    /\ UNCHANGED <<files, pages_first, docs, idx, layer_parent, last_layer, max_id, pagenum,
                   documents_pages, documents_objects, todo, catalog_object,
                   pages_object, arms, saved, result>>

\* res.adjust_zero_pages()
AdjustZero ==
    /\ pc = "adjust"
    /\ res' = [res EXCEPT !.bookmark_table = AdjustZeroPages(@)]
    /\ pc' = "outline"
    /\ UNCHANGED <<files, pages_first, docs, idx, layer_parent, last_layer, max_id, pagenum,
                   documents_pages, documents_objects, todo, catalog_object,
                   pages_object, arms, saved, result>>

\* if let Some(n) = res.build_outline() { set Outlines on the object found under
\* catalog_id (the identifier from before the renumbering), if it is a dictionary }
AttachOutline ==
    /\ pc = "outline"
    /\ LET n == OutlineRoot(res)
           r == BuildOutline(res)
       IN res' = IF n # 0 /\ catalog_object.id \in DOMAIN r.objects
                 THEN [r EXCEPT !.objects[catalog_object.id] = DictSet(@, "Outlines", Ref(n))]
                 ELSE r
    /\ pc' = "save"
    /\ UNCHANGED <<files, pages_first, docs, idx, layer_parent, last_layer, max_id, pagenum,
                   documents_pages, documents_objects, todo, catalog_object,
                   pages_object, arms, saved, result>>

\* res.save(predir.join("merged.pdf"))?; Ok(())
Save ==
    /\ pc = "save"
    /\ saved' = saved + 1
    /\ \E written \in BOOLEAN : result' = IF written THEN "ok" ELSE "save failed"
    /\ pc' = "done"
    /\ UNCHANGED <<files, pages_first, docs, idx, layer_parent, last_layer, max_id, pagenum,
                   documents_pages, documents_objects, res, todo, catalog_object,
                   pages_object, arms>>

Next ==
    \/ CheckArgs
    \/ LoadDocs
    \/ AddToc
    \/ ProcessDoc
    \/ Classify
    \/ CheckPages
    \/ InsertPages
    \/ CheckCatalog
    \/ BuildPages
    \/ BuildCatalog
    \/ Finalize
    \/ AdjustZero
    \/ AttachOutline
    \/ Save

Spec == Init /\ [][Next]_vars

(***************************************************************************)
(* Properties                                                              *)
(***************************************************************************)
GuardArm == "l if l <= last_layer || l - 1 == last_layer"

\* The bookmark created for the i-th document (bookmark 1 is the Table of Contents).
DocBookmark(i) == i + 1

\* The loop is taking the step for the k-th document.
DocStep(k) == pc = "docs" /\ idx = k - 1 /\ idx' = k

\* Three documents with one page each.
ThreeOnePage == Len(docs) = 3 /\ \A i \in 1..3 : Len(GetPages(docs[i])) = 1

\* The parent given to the bookmark created by the step at hand.
NewParent == res'.bookmark_table[Len(res'.bookmark_table)].parent

CatalogIds == {id \in DOMAIN documents_objects : TypeName(documents_objects[id]) = "Catalog"}

FirstCatalogId == CHOOSE x \in CatalogIds : \A y \in CatalogIds : x <= y

\* A Catalog's fields apart from those the merge rewrites.
OtherFields(d) == [f \in (DOMAIN d) \ {"Pages", "PageMode", "Outlines"} |-> d[f]]

\* C2: when two or more inputs hold a Catalog, the Catalog written to the output has
\* the identifier of the first Catalog seen and that first Catalog's field values
\* (apart from Pages, PageMode and Outlines).
C2_FirstCatalogKept ==
    (pc = "finalize" /\ Cardinality(CatalogIds) >= 2) =>
        /\ catalog_object.id = FirstCatalogId
        /\ OtherFields(res.objects[catalog_object.id])
              = OtherFields(documents_objects[FirstCatalogId])

\* The pages in insertion order: document by document, each in its page-tree order.
RECURSIVE InsertionOrder(_)
InsertionOrder(n) ==
    IF n = 0 THEN <<>> ELSE InsertionOrder(n - 1) \o GetPages(docs[n])

\* The Kids sequence of the Pages object written by BuildPages.
OutputKids == res.objects[pages_object.id]["Kids"].a

\* The input document an identifier was given to by the renumbering.
DocOf(id) == CHOOSE i \in 1..Len(docs) : id \in DOMAIN docs[i].objects

\* C3 (as stated): Kids lists the collected pages in insertion order, each
\* document's pages in the order get_pages returned them.
C3_KidsInInsertionOrder ==
    pc \in {"buildcatalog", "finalize"} => OutputKids = InsertionOrder(Len(docs))

\* C3 (amended): Kids lists exactly the collected pages, in ascending identifier
\* order (the key order of the map): the pages of document i come before those of
\* document j whenever i < j, and the pages of one document appear in ascending
\* order of their renumbered identifiers.
C3_KidsInKeyOrder ==
    pc \in {"buildcatalog", "finalize"} =>
        /\ {OutputKids[p] : p \in 1..Len(OutputKids)}
              = {InsertionOrder(Len(docs))[p] : p \in 1..Len(InsertionOrder(Len(docs)))}
        /\ Len(OutputKids) = Len(InsertionOrder(Len(docs)))
        /\ \A p, q \in 1..Len(OutputKids) :
              p < q => /\ OutputKids[p] < OutputKids[q]
                       /\ DocOf(OutputKids[p]) <= DocOf(OutputKids[q])

\* Kids has been written for a merge in which one document's page tree does not
\* list its pages in ascending identifier order, after a one-page document.
C3_Witness ==
    /\ pc = "buildcatalog"
    /\ Len(OutputKids) >= 3
    /\ OutputKids # InsertionOrder(Len(docs))
    /\ DocOf(OutputKids[1]) < DocOf(OutputKids[2])

\* The number of pages collected from the first n documents.
RECURSIVE PagesCollected(_)
PagesCollected(n) ==
    IF n = 0 THEN 0 ELSE PagesCollected(n - 1) + Len(GetPages(docs[n]))

\* The Pages object of the output: the one the output's Catalog names.
OutputPages == res.objects[res.objects[res.root]["Pages"].n]

\* C4: after a successful merge, Count of the output Pages equals the number of
\* pages collected from all inputs, Kids is as long as Count, and every identifier
\* in Kids is a key of the output graph whose object has declared type "Page".
C4_PageCount ==
    result = "ok" =>
        /\ res.root \in DOMAIN res.objects
        /\ TypeName(OutputPages) = "Pages"
        /\ OutputPages["Count"].n = PagesCollected(Len(docs))
        /\ Len(OutputPages["Kids"].a) = OutputPages["Count"].n
        /\ \A p \in 1..Len(OutputPages["Kids"].a) :
              /\ OutputPages["Kids"].a[p] \in DOMAIN res.objects
              /\ TypeName(res.objects[OutputPages["Kids"].a[p]]) = "Page"

\* A successful merge whose inputs contributed three pages or more.
C4_Witness ==
    /\ result = "ok"
    /\ PagesCollected(Len(docs)) >= 3
    /\ Len(OutputPages["Kids"].a) >= 3

\* C5: the documents processed so far have pairwise disjoint identifier sets, each
\* starting where the previous one ended (the first at 1), and the two unions hold
\* every object and every page of every processed document, none overwritten.
C5_DisjointIds ==
    /\ \A i \in 1..idx :
          /\ \A id \in DOMAIN docs[i].objects :
                /\ id \in DOMAIN documents_objects
                /\ documents_objects[id] = docs[i].objects[id]
          /\ \A p \in 1..Len(GetPages(docs[i])) :
                /\ GetPages(docs[i])[p] \in DOMAIN documents_pages
                /\ documents_pages[GetPages(docs[i])[p]] = docs[i].objects[GetPages(docs[i])[p]]
          /\ \A id \in DOMAIN docs[i].objects :
                id >= (IF i = 1 THEN 1 ELSE docs[i - 1].max_id + 1)
          /\ \A id \in DOMAIN docs[i].objects : id <= docs[i].max_id
    /\ \A i, j \in 1..idx :
          i < j => (DOMAIN docs[i].objects) \cap (DOMAIN docs[j].objects) = {}

\* Three documents have been renumbered and collected.
C5_Witness ==
    /\ idx = 3
    /\ Cardinality(DOMAIN documents_objects) >= 6
    /\ Cardinality(DOMAIN documents_pages) >= 2

\* The objects of the output that were copied from the inputs: everything except
\* the Outlines dictionary and the outline items build_outline added at the end.
CopiedIds ==
    {id \in DOMAIN res.objects :
        id <= Cardinality(DOMAIN res.objects) - (Len(res.bookmark_table) + 1)}

\* C6: after a successful merge, every Reference held inside an object copied from
\* the inputs resolves to a key of the output graph.
C6_ReferencesResolve ==
    result = "ok" =>
        \A id \in CopiedIds : RefsOf(res.objects[id]) \subseteq DOMAIN res.objects

\* The i-th document contributes no page.
ZeroPages(i) == GetPages(docs[i]) = <<>>

\* C7: after the repair pass, the bookmark of a document that contributes zero pages
\* while a later document contributes at least one has the target of the nearest
\* subsequent bookmark that has a concrete target, not the sentinel.
C7_ZeroTargetRepaired ==
    result = "ok" =>
        \A i, j \in 1..Len(docs) :
            (/\ i < j
             /\ ZeroPages(i)
             /\ ~ZeroPages(j)
             /\ \A m \in (i + 1)..(j - 1) : ZeroPages(m))
            => /\ res.bookmark_table[DocBookmark(i)].page # 0
               /\ res.bookmark_table[DocBookmark(i)].page
                     = res.bookmark_table[DocBookmark(j)].page

\* The errors main() returns before it reaches res.save.
ErrorsBeforeSave ==
    {"not enough files", "is not found", "object not found", "layer_parent is empty",
     "layer_parent is out of index", "Pages root not found.", "Catalog root not found."}

\* C8: a run that ends in one of the errors never invokes save; save is invoked at
\* most once, and only after every other step has succeeded.
C8_SaveOnlyAtEnd ==
    /\ saved <= 1
    /\ result \in ErrorsBeforeSave => saved = 0
    /\ pc # "done" => saved = 0
    /\ saved = 1 =>
          /\ pc = "done"
          /\ result \in {"ok", "save failed"}
          /\ Len(files) >= 2
          /\ \A i \in 1..Len(files) : ~LoadFails(files[i])
          /\ idx = Len(files)
          /\ todo = {}
          /\ pages_object.some
          /\ catalog_object.some
          /\ pages_object.id \in DOMAIN documents_objects
          /\ catalog_object.id \in DOMAIN documents_objects
          /\ res.root \in DOMAIN res.objects

\* A run that loaded and scanned its inputs and ended on a structural error.
C8_Witness ==
    /\ pc = "done"
    /\ result = "Catalog root not found."
    /\ idx = Len(files)
    /\ saved = 0

\* C9: every per-document bookmark is created with a parent that is an already
\* created bookmark, so the Table of Contents is the only parentless bookmark and
\* every document's bookmark is its descendant.
C9_EveryBookmarkNested ==
    \A b \in 2..Len(res.bookmark_table) :
        res.bookmark_table[b].parent \in 1..(b - 1)

\* C10: last_layer equals the number of documents processed; document 1 takes the
\* `1` arm and every later document the `l <= last_layer || l - 1 == last_layer`
\* arm, so the `0` arm and the two fallback arms are never taken.
C10_ArmsTaken ==
    /\ last_layer = idx
    /\ Len(arms) = idx
    /\ \A i \in 1..Len(arms) : arms[i] = (IF i = 1 THEN "1" ELSE GuardArm)

\* Three documents have gone through the match.
C10_Witness ==
    /\ idx = 3
    /\ last_layer = 3
    /\ arms[3] = GuardArm

====
